---- MODULE Spec2Model ----
(***************************************************************************)
(* A model of the data-drift evaluation harness (main_claude_opus.py and   *)
(* main_claude_sonnet.py): the tool-calling agent loop run_agent_loop, the *)
(* grader BinaryDataDriftGrader and the orchestrator main.                 *)
(*                                                                         *)
(* Four specifications share the variables:                                *)
(*   Spec       one execution of run_agent_loop (one session);             *)
(*   GradeSpec  one call of grade_response on one submitted text;          *)
(*   MainSpec   main with its trials (run_single_test);                    *)
(*   ReportSpec main's final report on the collected results.              *)
(* The variables of the parts a specification does not run stay idle.      *)
(***************************************************************************)
EXTENDS Naturals, Integers, Sequences, FiniteSets, TLC

VARIABLES
    \* ---- run_agent_loop (one session) ----
    pc,              \* position: "setup", "loop", "await", "done", "raised"
    step,            \* the for loop's step: iterations already finished
    messages,        \* the transcript (list of turns)
    submitted_code,  \* None or Some(code)
    ret,             \* the value returned once pc = "done"
    requests,        \* history: number of messages.create calls made
    faults,          \* history: how many of them faulted
    assigned,        \* history: the codes assigned to submitted_code, in order
    lastStep,        \* history: summary of the last response processed
    blocks,          \* history: content blocks the provider has returned
    sent,            \* history: the messages argument of the last request
    \* ---- grade_response (one call) ----
    variant,         \* which source file's grader: "opus" or "sonnet"
    code,            \* what run_agent_loop returned to run_single_test
    response_code,   \* the submitted text (an abstract text)
    load,            \* what exec(code, ns) does for this text
    gpc,             \* position: "idle", "exec", "lookup", "vectors", "count",
                     \*           "returned", "raised"
    fn,              \* index in FunctionKeys of the function being graded
    vi,              \* vectors of that function already invoked
    n_pass,          \* vectors of that function satisfied so far
    n_fault,         \* history: vectors of that function whose call raised
    results,         \* the results dict: function key -> [passed, reason]
    graded,          \* history: summary of the function just graded
    perfect,         \* history: every function graded so far was found and
                     \*          satisfied on every one of its vectors
    grading,         \* the dict grade_response returned
    \* ---- main ----
    mpc,             \* position: "start", "gather", "sequential", "print",
                     \*           "report", "reported", "crashed", "idle"
    concurrent,      \* main's concurrent flag
    num_runs,        \* main's num_runs
    trial,           \* per run id: the trial's position
    all_results,     \* the list of run results
    printed,         \* run ids whose summary was printed, in order
    report           \* the final report, once printed

svars == <<pc, step, messages, submitted_code, ret, requests, faults, assigned,
           lastStep, blocks, sent>>
gvars == <<variant, code, response_code, load, gpc, fn, vi, n_pass, n_fault, results,
           graded, perfect, grading>>
mvars == <<mpc, concurrent, num_runs, trial, all_results, printed, report>>
vars == <<svars, gvars, mvars>>

(***************************************************************************)
(* Bounds of the model.                                                    *)
(***************************************************************************)
MaxSteps == 2      \* max_steps of the modelled session (the code passes 20)
MaxBlocks == 3     \* content blocks the provider returns in one session
MaxRuns == 2       \* largest num_runs main is started with
MaxReportRuns == 10  \* largest num_runs whose final report is computed alone

(***************************************************************************)
(* Optional[str]                                                           *)
(***************************************************************************)
None == <<>>
Some(v) == <<v>>

\* Python truthiness of an Optional[str]: None and "" are falsy.
Truthy(v) == v # None /\ v[1] # ""

(***************************************************************************)
(* Provider responses: content blocks.                                     *)
(***************************************************************************)
Prompt == "prompt"

\* The code texts a submit_answer call carries. "" is also what
\* tool_input.get("code", "") yields when the field is missing.
Codes == {"", "a"}

\* The expressions a python_expression call carries.
Expressions == {"pass", "1/0", "exit()"}

\* Block shapes the provider may return (ids are added per request).
BlockShapes ==
    {[type |-> "text", name |-> "", input |-> ""]}
    \cup {[type |-> "tool_use", name |-> "python_expression", input |-> e] :
            e \in Expressions}
    \cup {[type |-> "tool_use", name |-> "submit_answer", input |-> c] :
            c \in Codes}
    \cup {[type |-> "tool_use", name |-> "web_search", input |-> ""]}

\* The responses of at most n content blocks.
ResponseShapes(n) == UNION {[1..k -> BlockShapes] : k \in 0..n}

\* The provider gives every tool_use block of a response its own call id.
WithIds(shape, req) ==
    [i \in 1..Len(shape) |->
        [type |-> shape[i].type, name |-> shape[i].name,
         input |-> shape[i].input,
         id |-> IF shape[i].type = "tool_use" THEN <<req, i>> ELSE <<>>]]

(***************************************************************************)
(* Tool execution.                                                         *)
(***************************************************************************)
\* exec(expression, ns, ns) with stdout captured: what it prints, or the
\* exception it raises. exit() raises SystemExit, which is a BaseException
\* but not an Exception.
Exec(expression) ==
    CASE expression = "pass"   -> [raised |-> "none", stdout |-> "", message |-> ""]
      [] expression = "1/0"    -> [raised |-> "Exception", stdout |-> "",
                                   message |-> "division by zero"]
      [] expression = "exit()" -> [raised |-> "BaseException", stdout |-> "",
                                   message |-> ""]

\* json.dumps(result) of the python_expression branch, for an execution that
\* returned or raised an Exception.
PythonExpressionResult(r) ==
    IF r.raised = "none"
    THEN IF r.stdout = "" THEN "{\"result\": \"OK\", \"error\": null}"
         ELSE "{\"result\": \"" \o r.stdout \o "\", \"error\": null}"
    ELSE "{\"result\": null, \"error\": \"" \o r.message \o "\"}"

SubmitResult == "{\"submitted\": true}"
UnknownToolResult == "{\"error\": \"Unknown tool\"}"

ToolResult(id, content) ==
    [type |-> "tool_result", tool_use_id |-> id, content |-> content]

\* The accumulator of one step's dispatch loop.
DispatchStart(sc, asg) ==
    [tool_results |-> <<>>, submitted_code |-> sc, assigned |-> asg,
     escaped |-> FALSE, pyfault |-> "none"]

\* for content in response.content: ... from block i on. An exception that
\* the inner "except Exception" does not catch leaves the loop (escaped).
RECURSIVE Dispatch(_, _, _)
Dispatch(content, i, acc) ==
    IF i > Len(content) \/ acc.escaped THEN acc
    ELSE LET c == content[i] IN
      IF c.type # "tool_use" THEN Dispatch(content, i + 1, acc)
      ELSE IF c.name = "python_expression" THEN
        LET r == Exec(c.input) IN
        IF r.raised = "BaseException"
        THEN [acc EXCEPT !.escaped = TRUE, !.pyfault = r.raised]
        ELSE Dispatch(content, i + 1,
               [acc EXCEPT
                  !.tool_results =
                      Append(@, ToolResult(c.id, PythonExpressionResult(r))),
                  !.pyfault = IF r.raised = "none" THEN @ ELSE r.raised])
      ELSE IF c.name = "submit_answer" THEN
        Dispatch(content, i + 1,
          [acc EXCEPT !.submitted_code = Some(c.input),
                      !.assigned = Append(@, c.input),
                      !.tool_results = Append(@, ToolResult(c.id, SubmitResult))])
      ELSE
        Dispatch(content, i + 1,
          [acc EXCEPT !.tool_results =
                          Append(@, ToolResult(c.id, UnknownToolResult))])

\* Mutant of AppendTurns: the reply turn with the tool results is not appended.
AppendTurnsUnpaired(msgs, content, tool_results) ==
    Append(msgs, [role |-> "assistant", content |-> content])

\* messages.append(assistant turn); messages.append(user turn)
AppendTurns(msgs, content, tool_results) ==
    msgs \o <<[role |-> "assistant", content |-> content],
              [role |-> "user", content |-> tool_results]>>

ToolUses(content) == {i \in 1..Len(content) : content[i].type = "tool_use"}

NoStep == [calls |-> 0, results |-> 0, appended |-> FALSE, pyfault |-> "none",
           escaped |-> FALSE]

(***************************************************************************)
(* run_agent_loop                                                          *)
(***************************************************************************)
SessionInit ==
    /\ pc = "setup"
    /\ step = 0
    /\ messages = <<>>
    /\ submitted_code = None
    /\ ret = None
    /\ requests = 0
    /\ faults = 0
    /\ assigned = <<>>
    /\ lastStep = NoStep
    /\ blocks = 0
    /\ sent = <<>>

SessionIdle ==
    /\ pc = "idle"
    /\ step = 0
    /\ messages = <<>>
    /\ submitted_code = None
    /\ ret = None
    /\ requests = 0
    /\ faults = 0
    /\ assigned = <<>>
    /\ lastStep = NoStep
    /\ blocks = 0
    /\ sent = <<>>

\* The client is built, then messages and submitted_code are initialised.
SetupOk ==
    /\ pc = "setup"
    /\ pc' = "loop"
    /\ messages' = <<[role |-> "user", content |-> Prompt]>>
    /\ submitted_code' = None
    /\ UNCHANGED <<step, ret, requests, faults, assigned, lastStep,
                   blocks, sent>>
    /\ UNCHANGED <<gvars, mvars>>

\* Building the client raises (AnthropicVertex(...), or the ValueError of the
\* API-key branch): the exception leaves run_agent_loop.
SetupFault ==
    /\ pc = "setup"
    /\ pc' = "raised"
    /\ UNCHANGED <<step, messages, submitted_code, ret, requests, faults,
                   assigned, lastStep, blocks, sent>>
    /\ UNCHANGED <<gvars, mvars>>

\* Mutant of Request: the loop runs one iteration too many.
RequestOffByOne ==
    /\ pc = "loop"
    /\ step <= MaxSteps
    /\ pc' = "await"
    /\ requests' = requests + 1
    /\ sent' = messages
    /\ UNCHANGED <<step, messages, submitted_code, ret, faults, assigned,
                   lastStep, blocks>>
    /\ UNCHANGED <<gvars, mvars>>

\* One iteration starts: messages.create is called with the transcript.
Request ==
    /\ pc = "loop"
    /\ step < MaxSteps
    /\ pc' = "await"
    /\ requests' = requests + 1
    /\ sent' = messages
    /\ UNCHANGED <<step, messages, submitted_code, ret, faults, assigned,
                   lastStep, blocks>>
    /\ UNCHANGED <<gvars, mvars>>

\* Mutant of ProviderFault: the faulted step is not counted.
ProviderFaultUncounted ==
    /\ pc = "await"
    /\ pc' = "loop"
    /\ step' = step
    /\ faults' = faults + 1
    /\ lastStep' = NoStep
    /\ UNCHANGED <<messages, submitted_code, ret, requests, assigned, blocks,
                   sent>>
    /\ UNCHANGED <<gvars, mvars>>

\* The provider call raises: except: continue.
ProviderFault ==
    /\ pc = "await"
    /\ pc' = "loop"
    /\ step' = step + 1
    /\ faults' = faults + 1
    /\ lastStep' = NoStep
    /\ UNCHANGED <<messages, submitted_code, ret, requests, assigned, blocks,
                   sent>>
    /\ UNCHANGED <<gvars, mvars>>

\* The provider call returns: the rest of the iteration, up to the next
\* await, the return or the continue.
ProviderResponse ==
    /\ pc = "await"
    /\ \E shape \in ResponseShapes(MaxBlocks - blocks) :
         LET content == WithIds(shape, requests)
             d == Dispatch(content, 1, DispatchStart(submitted_code, assigned))
             appends == ~d.escaped /\ d.tool_results # <<>>
             returns == appends /\ Truthy(d.submitted_code)
         IN  /\ blocks' = blocks + Len(shape)
             /\ submitted_code' = d.submitted_code
             /\ assigned' = d.assigned
             /\ messages' = IF appends
                            THEN AppendTurns(messages, content, d.tool_results)
                            ELSE messages
             /\ lastStep' = [calls |-> Cardinality(ToolUses(content)),
                             results |-> Len(d.tool_results),
                             appended |-> appends,
                             pyfault |-> d.pyfault,
                             escaped |-> d.escaped]
             /\ IF returns
                THEN /\ pc' = "done"
                     /\ ret' = d.submitted_code
                     /\ step' = step
                ELSE /\ pc' = "loop"
                     /\ ret' = ret
                     /\ step' = step + 1
    /\ UNCHANGED <<requests, faults, sent>>
    /\ UNCHANGED <<gvars, mvars>>

\* The for loop is exhausted: return None.
LoopExhausted ==
    /\ pc = "loop"
    /\ step = MaxSteps
    /\ pc' = "done"
    /\ ret' = None
    /\ UNCHANGED <<step, messages, submitted_code, requests, faults, assigned,
                   lastStep, blocks, sent>>
    /\ UNCHANGED <<gvars, mvars>>

(***************************************************************************)
(* Idle values of the grader's and main's variables.                       *)
(***************************************************************************)
NoGraded == [fn |-> 0, present |-> FALSE, invoked |-> 0, sat |-> 0,
             faults |-> 0, passed |-> FALSE, reason |-> ""]

NoGrading == [results |-> <<>>, score |-> 0, error |-> None]

GradeIdle ==
    /\ variant = "opus"
    /\ code = None
    /\ response_code = ""
    /\ load = "ok"
    /\ gpc = "idle"
    /\ fn = 1
    /\ vi = 0
    /\ n_pass = 0
    /\ n_fault = 0
    /\ results = <<>>
    /\ graded = NoGraded
    /\ perfect = TRUE
    /\ grading = NoGrading

NoReport == [passed_runs |-> 0, num_runs |-> 0, target_met |-> FALSE]

MainIdle ==
    /\ mpc = "idle"
    /\ concurrent = FALSE
    /\ num_runs = 0
    /\ trial = <<>>
    /\ all_results = <<>>
    /\ printed = <<>>
    /\ report = NoReport

Init ==
    /\ SessionInit
    /\ GradeIdle
    /\ MainIdle

Next ==
    \/ SetupOk
    \/ SetupFault
    \/ Request
    \/ ProviderFault
    \/ ProviderResponse
    \/ LoopExhausted

Spec == Init /\ [][Next]_vars

\* Every awaited provider call returns or raises, and the code between two
\* awaits runs to its end.
FairSpec == Spec /\ WF_vars(Next)


(***************************************************************************)
(* BinaryDataDriftGrader                                                   *)
(*                                                                         *)
(* A submitted text is known to the grader only by what it does: what      *)
(* exec(code, ns) does (load), which of the five functions it defines, and *)
(* what each call on a test vector does. The load behaviour is fixed per   *)
(* text; the rest is drawn when the grader reaches it (each function is    *)
(* looked up once and each vector invoked once per call).                  *)
(***************************************************************************)
Variants == {"opus", "sonnet"}

\* "" is the empty text; "code" stands for any other text.
Texts == {"", "code"}

\* What run_agent_loop returns: None, or a text that is not empty.
Returns == {None} \cup {Some(t) : t \in Texts \ {""}}

\* Mutant of CodeOrEmpty: None is graded as a text that is not empty.
CodeOrText(c) == IF Truthy(c) THEN c[1] ELSE "code"

\* code or "": the text run_single_test hands to grade_response.
CodeOrEmpty(c) == IF Truthy(c) THEN c[1] ELSE ""

FunctionKeys == <<"detect_covariate", "detect_concept", "classify", "impact",
                  "action">>

\* exec("", ns) returns and defines nothing.
Loads(text) == IF text = "" THEN {"ok"} ELSE {"ok", "Exception", "BaseException"}
Defines(text) == IF text = "" THEN {FALSE} ELSE BOOLEAN

\* What one vector's invocation and check does: the expected condition holds
\* (sat) or not (unsat), or the call or the check raises.
Outcomes == {"sat", "unsat", "Exception", "BaseException"}

\* Number of test vectors of each function.
NumTests(v, f) ==
    IF v = "opus" THEN <<7, 8, 7, 4, 9>>[f] ELSE <<8, 5, 6, 4, 8>>[f]

\* The test vectors of determine_response_action: drift_type, severity (in
\* hundredths) and the expected action.
ActionCase(d, sev, a) == [drift_type |-> d, severity |-> sev, expected |-> a]

ActionCases(v) ==
    IF v = "opus"
    THEN << ActionCase("covariate", 5, "MONITOR"),
            ActionCase("concept", 35, "INVESTIGATE"),
            ActionCase("both", 60, "RETRAIN"),
            ActionCase("concept", 92, "ESCALATE"),
            ActionCase("unknown", 50, "INVESTIGATE"),
            ActionCase("covariate", 89, "RETRAIN"),
            ActionCase("concept", 31, "INVESTIGATE"),
            ActionCase("both", 90, "ESCALATE"),
            ActionCase("unknown", 20, "MONITOR") >>
    ELSE << ActionCase("covariate", 29, "MONITOR"),
            ActionCase("concept", 35, "INVESTIGATE"),
            ActionCase("both", 51, "RETRAIN"),
            ActionCase("concept", 91, "ESCALATE"),
            ActionCase("covariate", 50, "INVESTIGATE"),
            ActionCase("both", 75, "RETRAIN"),
            ActionCase("both", 95, "ESCALATE"),
            ActionCase("unknown", 45, "INVESTIGATE") >>

\* The severity thresholds of the task (in hundredths) and the actions of
\* the four bands they separate, lowest band first.
Thresholds == <<30, 50, 90>>
Actions == <<"MONITOR", "INVESTIGATE", "RETRAIN", "ESCALATE">>

\* What the try around one vector's invocation catches: "Exception" (except
\* Exception), "BaseException" (a bare except) or "none" (no such try).
VectorHandler(v, f) ==
    IF v = "opus"
    THEN <<"Exception", "Exception", "BaseException", "BaseException",
           "BaseException">>[f]
    ELSE <<"none", "none", "BaseException", "none", "Exception">>[f]

\* Mutant of OuterHandler: the _test_ methods have no try of their own.
OuterHandlerNone(v, f) == "none"

\* What the try around the whole _test_ method catches.
OuterHandler(v, f) ==
    IF v = "opus" THEN "Exception"
    ELSE <<"Exception", "Exception", "BaseException", "Exception",
           "Exception">>[f]

Catches(handler, raised) ==
    \/ handler = "BaseException"
    \/ handler = "Exception" /\ raised = "Exception"

\* The 'passed' value of a function all of whose n vectors were invoked, n_sat
\* of them satisfied.
Passed(v, f, n_sat, n) ==
    IF v = "opus"
    THEN CASE f = 1 -> 3 <= n_sat /\ n_sat <= 5
           [] f = 2 -> 3 <= n_sat /\ n_sat <= 5
           [] f = 3 -> n_sat >= 5
           [] f = 4 -> 2 <= n_sat /\ n_sat <= 3
           [] f = 5 -> 4 <= n_sat /\ n_sat <= 6
    ELSE CASE f = 1 -> n - n_sat <= 2
           [] f = 2 -> n - n_sat <= 3
           [] f = 3 -> n - n_sat = 0
           [] f = 4 -> n - n_sat <= 2
           [] f = 5 -> n - n_sat <= 3

\* The reason text, without the numbers it embeds.
CountReason(v, n_sat, n) ==
    IF v = "opus" THEN "Passed k/n tests"
    ELSE IF n_sat = n THEN "All n tests passed" ELSE "Failed tests: [..]"

ExecutionFailedReason(v, f) ==
    IF v = "sonnet" /\ f = 3 THEN "Function execution failed"
    ELSE "Execution failed: e"

\* passed_count = sum(1 for r in results.values() if r['passed'])
PassedCount(rs) == Cardinality({k \in DOMAIN rs : rs[k].passed})

\* The except branch of grade_response.
GradingError ==
    [results |-> [k \in {FunctionKeys[i] : i \in 1..5} |->
                     [passed |-> FALSE, reason |-> "Grading error"]],
     score |-> 0,
     error |-> Some("e")]

GradeInit ==
    /\ SessionIdle
    /\ MainIdle
    /\ variant \in Variants
    /\ code \in Returns
    /\ response_code = CodeOrEmpty(code)
    /\ load \in Loads(response_code)
    /\ gpc = "exec"
    /\ fn = 1
    /\ vi = 0
    /\ n_pass = 0
    /\ n_fault = 0
    /\ results = <<>>
    /\ graded = NoGraded
    /\ perfect = TRUE
    /\ grading = NoGrading

\* A _test_ method returns r: the dict literal of grade_response gets its
\* entry and the next method is called.
FunctionDone(r, invoked, present) ==
    /\ results' = [k \in DOMAIN results \cup {FunctionKeys[fn]} |->
                      IF k = FunctionKeys[fn] THEN r ELSE results[k]]
    /\ graded' = [fn |-> fn, present |-> present, invoked |-> invoked,
                  sat |-> n_pass' , faults |-> n_fault',
                  passed |-> r.passed, reason |-> r.reason]
    /\ perfect' = (perfect /\ present /\ invoked = NumTests(variant, fn)
                           /\ n_pass' = invoked)
    /\ fn' = fn + 1
    /\ gpc' = IF fn = 5 THEN "count" ELSE "exec"
    /\ vi' = 0
    /\ UNCHANGED grading

\* An exception leaves the _test_ method: grade_response's except Exception
\* handles it, or it leaves grade_response.
Escapes(raised) ==
    /\ IF raised = "Exception"
       THEN gpc' = "returned" /\ grading' = GradingError
       ELSE gpc' = "raised" /\ grading' = grading
    /\ UNCHANGED <<fn, vi, n_pass, n_fault, results, graded, perfect>>

Failed(reason) == [passed |-> FALSE, reason |-> reason]

\* ns = {}; exec(code, ns)
ExecCode ==
    /\ gpc = "exec"
    /\ IF load = "ok"
       THEN /\ gpc' = "lookup"
            /\ graded' = NoGraded
            /\ n_pass' = 0
            /\ n_fault' = 0
            /\ UNCHANGED <<fn, vi, results, perfect, grading>>
       ELSE IF Catches(OuterHandler(variant, fn), load)
       THEN /\ n_pass' = 0
            /\ n_fault' = 0
            /\ FunctionDone(Failed(ExecutionFailedReason(variant, fn)), 0, FALSE)
       ELSE Escapes(load)
    /\ UNCHANGED <<variant, code, response_code, load>>
    /\ UNCHANGED <<svars, mvars>>

\* func = ns.get(name); if not func: return 'Function not found'
Lookup ==
    /\ gpc = "lookup"
    /\ \E present \in Defines(response_code) :
         IF present
         THEN /\ gpc' = "vectors"
              /\ UNCHANGED <<fn, vi, n_pass, n_fault, results, graded, perfect,
                             grading>>
         ELSE /\ UNCHANGED <<n_pass, n_fault>>
              /\ FunctionDone(Failed("Function not found"), 0, FALSE)
    /\ UNCHANGED <<variant, code, response_code, load>>
    /\ UNCHANGED <<svars, mvars>>

\* The next test vector is invoked and its expected condition checked.
Invoke ==
    /\ gpc = "vectors"
    /\ vi < NumTests(variant, fn)
    /\ \E o \in Outcomes :
         IF o \in {"sat", "unsat"}
         THEN /\ vi' = vi + 1
              /\ n_pass' = IF o = "sat" THEN n_pass + 1 ELSE n_pass
              /\ UNCHANGED <<gpc, fn, n_fault, results, graded, perfect,
                             grading>>
         ELSE IF Catches(VectorHandler(variant, fn), o)
         THEN /\ vi' = vi + 1
              /\ n_fault' = n_fault + 1
              /\ UNCHANGED <<gpc, fn, n_pass, results, graded, perfect,
                             grading>>
         ELSE IF Catches(OuterHandler(variant, fn), o)
         THEN /\ n_pass' = n_pass
              /\ n_fault' = n_fault + 1
              /\ FunctionDone(Failed(ExecutionFailedReason(variant, fn)),
                              vi + 1, TRUE)
         ELSE Escapes(o)
    /\ UNCHANGED <<variant, code, response_code, load>>
    /\ UNCHANGED <<svars, mvars>>

\* All vectors were invoked: the method returns its pass decision.
Decide ==
    /\ gpc = "vectors"
    /\ vi = NumTests(variant, fn)
    /\ UNCHANGED <<n_pass, n_fault>>
    /\ FunctionDone([passed |-> Passed(variant, fn, n_pass, vi),
                     reason |-> CountReason(variant, n_pass, vi)], vi, TRUE)
    /\ UNCHANGED <<variant, code, response_code, load>>
    /\ UNCHANGED <<svars, mvars>>

\* return {'results': results, 'score': passed_count}
ReturnGrade ==
    /\ gpc = "count"
    /\ gpc' = "returned"
    /\ grading' = [results |-> results, score |-> PassedCount(results),
                   error |-> None]
    /\ UNCHANGED <<variant, code, response_code, load, fn, vi, n_pass, n_fault,
                   results, graded, perfect>>
    /\ UNCHANGED <<svars, mvars>>

GradeNext ==
    \/ ExecCode
    \/ Lookup
    \/ Invoke
    \/ Decide
    \/ ReturnGrade

GradeSpec == GradeInit /\ [][GradeNext]_vars


(***************************************************************************)
(* main and run_single_test                                                *)
(*                                                                         *)
(* A trial is one run_single_test coroutine: run_agent_loop (client setup, *)
(* then the steps, each awaiting the provider) followed by grade_response. *)
(* Each trial has its own session: step, messages and submitted_code are   *)
(* locals of its run_agent_loop call. The provider's answers to a trial    *)
(* are drawn from TrialOutcomes; what grading does with a text is drawn    *)
(* from what GradeSpec reaches for it.                                     *)
(***************************************************************************)
RunIds == 1..num_runs

\* pos: "new", "await" (a provider request is outstanding), "grade" (the
\* session has returned code), "returned", "raised". got is the history of
\* the provider's answers to the trial's requests.
NewTrial == [pos |-> "new", step |-> 0, messages |-> <<>>,
             submitted_code |-> None, got |-> <<>>, code |-> None,
             score |-> 0]

\* The provider's answer to one request of a trial: a fault, or a response
\* with one tool call.
TrialOutcomes ==
    {[fault |-> TRUE, shape |-> <<>>]}
    \cup {[fault |-> FALSE, shape |-> sh] :
            sh \in {<<[type |-> "tool_use", name |-> "python_expression",
                       input |-> "pass"]>>,
                    <<[type |-> "tool_use", name |-> "submit_answer",
                       input |-> "a"]>>}}

\* Mutant of TrialSession: submitted_code is one variable shared by all the
\* sessions (the one of trial 1).
TrialSessionShared(t, i) ==
    [step |-> t[i].step, messages |-> t[i].messages,
     submitted_code |-> t[1].submitted_code]

\* The locals of trial i's run_agent_loop call.
TrialSession(t, i) ==
    [step |-> t[i].step, messages |-> t[i].messages,
     submitted_code |-> t[i].submitted_code]

SessionStart ==
    [step |-> 0, messages |-> <<[role |-> "user", content |-> Prompt]>>,
     submitted_code |-> None, pos |-> "await", code |-> None]

\* One iteration of the loop from the provider's answer o on, in a session
\* whose locals are s: the locals after it, and whether run_agent_loop goes
\* on to its next request ("await") or has returned code ("grade").
SessionStep(s, o) ==
    LET content == WithIds(o.shape, s.step + 1)
        d == Dispatch(content, 1, DispatchStart(s.submitted_code, <<>>))
        appends == ~o.fault /\ ~d.escaped /\ d.tool_results # <<>>
        returns == appends /\ Truthy(d.submitted_code)
        sc == IF o.fault THEN s.submitted_code ELSE d.submitted_code
        msgs == IF appends THEN AppendTurns(s.messages, content, d.tool_results)
                ELSE s.messages
    IN  IF returns
        THEN [step |-> s.step, messages |-> msgs, submitted_code |-> sc,
              pos |-> "grade", code |-> sc]
        ELSE [step |-> s.step + 1, messages |-> msgs, submitted_code |-> sc,
              pos |-> IF s.step + 1 < MaxSteps THEN "await" ELSE "grade",
              code |-> None]

\* What grade_response(code or "") gives run_single_test: a score, or the
\* exception that leaves it.
GradeOutcomes ==
    {[raised |-> FALSE, score |-> sc] : sc \in 0..5}
    \cup {[raised |-> TRUE, score |-> 0]}

\* Grading the empty text gives score 0.
GradeOutcomesOf(text) ==
    IF text = "" THEN {[raised |-> FALSE, score |-> 0]} ELSE GradeOutcomes

RunResult(i) == [run_id |-> i, score |-> trial[i].score]

MainInit ==
    /\ SessionIdle
    /\ GradeIdle
    /\ mpc = "start"
    /\ concurrent \in BOOLEAN
    /\ num_runs \in 0..MaxRuns
    /\ trial = [i \in RunIds |-> NewTrial]
    /\ all_results = <<>>
    /\ printed = <<>>
    /\ report = NoReport

\* tasks = [run_single_test(i+1, ...) ...]; await asyncio.gather(*tasks)
StartConcurrent ==
    /\ mpc = "start"
    /\ concurrent
    /\ mpc' = "gather"
    /\ UNCHANGED <<concurrent, num_runs, trial, all_results, printed, report>>
    /\ UNCHANGED <<svars, gvars>>

\* for i in range(num_runs): ...
StartSequential ==
    /\ mpc = "start"
    /\ ~concurrent
    /\ mpc' = "sequential"
    /\ UNCHANGED <<concurrent, num_runs, trial, all_results, printed, report>>
    /\ UNCHANGED <<svars, gvars>>

\* Mutant of MayStart: the sequential loop does not await a run before it
\* starts the next one.
MayStartUnawaited(i) == mpc \in {"gather", "sequential"}

\* The trial may start: as a task of the gather, or as the loop's next run.
MayStart(i) ==
    \/ mpc = "gather"
    \/ mpc = "sequential" /\ i = Len(all_results) + 1

\* run_single_test(i) starts: run_agent_loop builds its client and sends the
\* first request, or building the client raises.
TrialStart(i) ==
    /\ MayStart(i)
    /\ trial[i].pos = "new"
    /\ \E ok \in BOOLEAN :
         trial' = [trial EXCEPT
                     ![i] = IF ok
                            THEN [@ EXCEPT !.pos = "await",
                                           !.messages = SessionStart.messages]
                            ELSE [@ EXCEPT !.pos = "raised"]]
    /\ UNCHANGED <<mpc, concurrent, num_runs, all_results, printed, report>>
    /\ UNCHANGED <<svars, gvars>>

\* The provider answers trial i's outstanding request: the rest of that
\* iteration of trial i's loop.
TrialStep(i) ==
    /\ mpc \in {"gather", "sequential"}
    /\ trial[i].pos = "await"
    /\ \E o \in TrialOutcomes :
         LET n == SessionStep(TrialSession(trial, i), o) IN
         trial' = [trial EXCEPT
                     ![i] = [@ EXCEPT !.pos = n.pos,
                                      !.step = n.step,
                                      !.messages = n.messages,
                                      !.submitted_code = n.submitted_code,
                                      !.code = n.code,
                                      !.got = Append(@, o)]]
    /\ UNCHANGED <<mpc, concurrent, num_runs, all_results, printed, report>>
    /\ UNCHANGED <<svars, gvars>>

\* The trial's session has returned and its code is graded: run_single_test
\* returns its dict, or the exception that left grade_response leaves it too.
TrialFinish(i) ==
    /\ mpc \in {"gather", "sequential"}
    /\ trial[i].pos = "grade"
    /\ \E g \in GradeOutcomesOf(CodeOrEmpty(trial[i].code)) :
         trial' = [trial EXCEPT
                     ![i] = IF g.raised THEN [@ EXCEPT !.pos = "raised"]
                            ELSE [@ EXCEPT !.pos = "returned",
                                           !.score = g.score]]
    /\ UNCHANGED <<mpc, concurrent, num_runs, all_results, printed, report>>
    /\ UNCHANGED <<svars, gvars>>

\* gather returns the results in task order once every task has returned.
GatherReturns ==
    /\ mpc = "gather"
    /\ \A i \in RunIds : trial[i].pos = "returned"
    /\ all_results' = [i \in RunIds |-> RunResult(i)]
    /\ mpc' = "print"
    /\ UNCHANGED <<concurrent, num_runs, trial, printed, report>>
    /\ UNCHANGED <<svars, gvars>>

\* gather (return_exceptions unset) raises a task's exception in main.
GatherRaises ==
    /\ mpc = "gather"
    /\ \E i \in RunIds : trial[i].pos = "raised"
    /\ mpc' = "crashed"
    /\ UNCHANGED <<concurrent, num_runs, trial, all_results, printed, report>>
    /\ UNCHANGED <<svars, gvars>>

\* if concurrent: for result in all_results: print_run_summary(result)
PrintSummaries ==
    /\ mpc = "print"
    /\ printed' = [k \in 1..Len(all_results) |-> all_results[k].run_id]
    /\ mpc' = "report"
    /\ UNCHANGED <<concurrent, num_runs, trial, all_results, report>>
    /\ UNCHANGED <<svars, gvars>>

\* all_results.append(result); print_run_summary(result)
SequentialCollect ==
    /\ mpc = "sequential"
    /\ Len(all_results) < num_runs
    /\ LET i == Len(all_results) + 1 IN
         /\ trial[i].pos = "returned"
         /\ all_results' = Append(all_results, RunResult(i))
         /\ printed' = Append(printed, i)
    /\ UNCHANGED <<mpc, concurrent, num_runs, trial, report>>
    /\ UNCHANGED <<svars, gvars>>

\* The awaited run_single_test raises in main's loop.
SequentialRaises ==
    /\ mpc = "sequential"
    /\ Len(all_results) < num_runs
    /\ trial[Len(all_results) + 1].pos = "raised"
    /\ mpc' = "crashed"
    /\ UNCHANGED <<concurrent, num_runs, trial, all_results, printed, report>>
    /\ UNCHANGED <<svars, gvars>>

\* The loop over range(num_runs) ends.
SequentialDone ==
    /\ mpc = "sequential"
    /\ Len(all_results) = num_runs
    /\ mpc' = "report"
    /\ UNCHANGED <<concurrent, num_runs, trial, all_results, printed, report>>
    /\ UNCHANGED <<svars, gvars>>

\* passed_runs = sum(1 for s in scores if s == 5)
PassedRuns(rs) == Cardinality({k \in 1..Len(rs) : rs[k].score = 5})

\* Mutant of TargetMet: the ends of the band are excluded.
TargetMetExclusive(passed_runs, n) ==
    10 * n < 100 * passed_runs /\ 100 * passed_runs < 40 * n

\* 10 <= (passed_runs / num_runs) * 100 <= 40, in whole numbers.
TargetMet(passed_runs, n) ==
    10 * n <= 100 * passed_runs /\ 100 * passed_runs <= 40 * n

\* The final report; passed_runs / num_runs raises ZeroDivisionError when
\* num_runs is 0.
Report ==
    /\ mpc = "report"
    /\ IF num_runs = 0
       THEN mpc' = "crashed" /\ report' = report
       ELSE /\ mpc' = "reported"
            /\ report' = [passed_runs |-> PassedRuns(all_results),
                          num_runs |-> num_runs,
                          target_met |-> TargetMet(PassedRuns(all_results),
                                                   num_runs)]
    /\ UNCHANGED <<concurrent, num_runs, trial, all_results, printed>>
    /\ UNCHANGED <<svars, gvars>>

MainNext ==
    \/ StartConcurrent
    \/ StartSequential
    \/ \E i \in RunIds : TrialStart(i)
    \/ \E i \in RunIds : TrialStep(i)
    \/ \E i \in RunIds : TrialFinish(i)
    \/ GatherReturns
    \/ GatherRaises
    \/ PrintSummaries
    \/ SequentialCollect
    \/ SequentialRaises
    \/ SequentialDone
    \/ Report

MainSpec == MainInit /\ [][MainNext]_vars

(***************************************************************************)
(* The final report on its own: main has collected all_results, whatever   *)
(* the trials scored, and computes the report.                             *)
(***************************************************************************)
\* The scores the collected results carry: none passed, one function short,
\* all five passed.
ReportScores == {0, 4, 5}

ReportInit ==
    /\ SessionIdle
    /\ GradeIdle
    /\ mpc = "report"
    /\ concurrent \in BOOLEAN
    /\ num_runs \in 0..MaxReportRuns
    /\ \E scores \in [RunIds -> ReportScores] :
         /\ trial = [i \in RunIds |->
                       [NewTrial EXCEPT !.pos = "returned",
                                        !.score = scores[i]]]
         /\ all_results = [i \in RunIds |-> [run_id |-> i, score |-> scores[i]]]
    /\ printed = [i \in RunIds |-> i]
    /\ report = NoReport

ReportNext == Report

ReportSpec == ReportInit /\ [][ReportNext]_vars


(***************************************************************************)
(* Properties of run_agent_loop (Spec, FairSpec)                           *)
(***************************************************************************)

\* C1: once a step has dispatched a submit_answer call, whatever its code and
\* whatever else the step holds, no further provider request is made.
C1_NoRequestAfterSubmit ==
    [][assigned # <<>> => requests' = requests]_vars

\* C2: submitted_code is assigned at most once in a session, so a recorded
\* submission is never overwritten by a later submit_answer call.
C2_AssignedAtMostOnce == Len(assigned) <= 1

\* C3: the loop ends after at most max_steps provider requests; it returns
\* None when it ends with no submission recorded, and that after exactly
\* max_steps requests; with every request faulting it makes exactly
\* max_steps requests and returns None. Once the client is set up nothing
\* raises out of the loop.
C3_EndsWithinMaxSteps ==
    /\ <>(pc \in {"done", "raised"})
    /\ [](requests <= MaxSteps)
    /\ []((pc = "done" /\ ~Truthy(submitted_code))
            => (ret = None /\ requests = MaxSteps))
    /\ []((pc = "done" /\ faults = requests)
            => (ret = None /\ requests = MaxSteps))
    /\ [](pc = "raised" => (requests = 0 /\ messages = <<>>))

C3_Witness ==
    /\ pc = "done"
    /\ requests = MaxSteps
    /\ faults = requests
    /\ ret = None

IsPrefix(s, t) == Len(s) <= Len(t) /\ \A i \in 1..Len(s) : s[i] = t[i]

\* The call ids of a turn's tool_use blocks, in order.
ToolUseIds(content) ==
    LET uses == SelectSeq(content, LAMBDA b : b.type = "tool_use")
    IN  [j \in 1..Len(uses) |-> uses[j].id]

\* The call ids a reply turn's tool_result blocks answer, in order.
ToolResultIds(content) == [j \in 1..Len(content) |-> content[j].tool_use_id]

WellFormed(msgs) ==
    /\ Len(msgs) >= 1
    /\ msgs[1] = [role |-> "user", content |-> Prompt]
    /\ Len(msgs) % 2 = 1
    /\ \A k \in 1..((Len(msgs) - 1) \div 2) :
         LET a == msgs[2 * k]
             u == msgs[2 * k + 1]
         IN  /\ a.role = "assistant"
             /\ u.role = "user"
             /\ \A j \in 1..Len(u.content) : u.content[j].type = "tool_result"
             /\ ToolResultIds(u.content) = ToolUseIds(a.content)

\* C4: the transcript starts with the one user prompt turn, is only ever
\* appended to, and every assistant turn is followed at once by one user
\* turn holding one tool_result per tool_use block of it, ids in order.
C4_TranscriptWellFormed ==
    /\ [](pc \in {"loop", "await", "done"} => WellFormed(messages))
    /\ [][IsPrefix(messages, messages')]_vars

C4_Witness ==
    /\ Len(messages) = 3
    /\ Len(messages[2].content) = 3
    /\ messages[2].content[2].type = "text"
    /\ Len(messages[3].content) = 2

\* C5: a fault raised by a python_expression call becomes a tool result and
\* aborts nothing: every tool call of the step gets its result and the
\* step's two turns are appended.
C5_FaultBecomesToolResult ==
    lastStep.pyfault # "none"
        => /\ ~lastStep.escaped
           /\ lastStep.results = lastStep.calls
           /\ lastStep.appended

\* C18: a step whose provider request faults changes neither the transcript
\* nor submitted_code, returns nothing, makes no request of its own and
\* consumes exactly one step; the request of the next step sends the same
\* history as the faulted one (a faulted step leaves lastStep = NoStep).
C18_FaultedStepSkipped ==
    [][/\ faults' = faults + 1
           => /\ messages' = messages
              /\ submitted_code' = submitted_code
              /\ assigned' = assigned
              /\ ret' = ret
              /\ requests' = requests
              /\ step' = step + 1
              /\ pc' = "loop"
       /\ (lastStep = NoStep /\ faults > 0 /\ requests' = requests + 1)
            => sent' = sent]_vars

\* The second request of a session whose first request faulted.
C18_Witness ==
    /\ pc = "await"
    /\ faults = 1
    /\ requests = 2
    /\ step = 1
    /\ sent = messages

\* C20: a session in which a submit_answer call was dispatched returns the
\* code of such a call, and not None.
C20_SubmissionNeverLost ==
    (pc = "done" /\ assigned # <<>>)
        => /\ ret # None
           /\ \E k \in 1..Len(assigned) : ret = Some(assigned[k])

(***************************************************************************)
(* Properties of main (MainSpec)                                           *)
(***************************************************************************)

\* C6: no fault leaves a trial: run_single_test returns a result for every
\* trial, and main, started with at least one run, is never ended by an
\* exception.
C6_NoFaultLeavesTrial ==
    /\ \A i \in DOMAIN trial : trial[i].pos # "raised"
    /\ num_runs > 0 => mpc # "crashed"

\* C13: main started with num_runs = 0 is not ended by a fault: it gives a
\* report, in concurrent and in sequential mode.
C13_ZeroRunsReports == num_runs = 0 => mpc # "crashed"

Printed(i) == \E k \in 1..Len(printed) : printed[k] = i

Running == {i \in DOMAIN trial : trial[i].pos \in {"await", "grade"}}

\* C15: in concurrent mode no summary is printed before every trial has
\* returned; in sequential mode the summary of trial i is printed after
\* trial i has returned and before trial i+1 starts, and at most one trial
\* is running at any time.
C15_SummaryOrder ==
    /\ (concurrent /\ printed # <<>>)
         => \A i \in DOMAIN trial : trial[i].pos = "returned"
    /\ ~concurrent
         => /\ \A i \in DOMAIN trial :
                 /\ Printed(i) => trial[i].pos = "returned"
                 /\ (i > 1 /\ trial[i].pos # "new") => Printed(i - 1)
            /\ Cardinality(Running) <= 1
    /\ \A k \in 1..Len(printed) : printed[k] = k

\* Sequential mode: the first summary is out and the second trial is running.
C15_Witness ==
    /\ ~concurrent
    /\ printed = <<1>>
    /\ num_runs = 2
    /\ trial[2].pos = "await"

\* The session a trial's answers give when the trial runs alone.
RECURSIVE RunAlone(_, _, _)
RunAlone(got, k, s) ==
    IF k > Len(got) THEN s ELSE RunAlone(got, k + 1, SessionStep(s, got[k]))

\* Each trial's session is the one its own answers give, whatever the other
\* trials did in between.
TrialsIsolated ==
    \A i \in DOMAIN trial :
        trial[i].messages # <<>>
            => LET a == RunAlone(trial[i].got, 1, SessionStart) IN
               /\ trial[i].step = a.step
               /\ trial[i].messages = a.messages
               /\ trial[i].submitted_code = a.submitted_code
               /\ trial[i].code = a.code
               /\ (trial[i].pos = "await") <=> (a.pos = "await")

\* The result list gather returns: one entry per trial, in task order.
ResultsInOrder ==
    (concurrent /\ mpc \in {"print", "report", "reported"})
        => /\ Len(all_results) = num_runs
           /\ \A i \in 1..num_runs :
                all_results[i] = [run_id |-> i, score |-> trial[i].score]

\* C17: under every interleaving of the concurrent trials gather returns a
\* result list with one entry per trial, entry i carrying run id i and what
\* trial i gives when run alone on the same answers, each session reading
\* and writing its own transcript and submitted_code only.
C17_ConcurrentTrialsIsolated ==
    /\ TrialsIsolated
    /\ ResultsInOrder
    /\ (concurrent /\ mpc = "crashed") => num_runs = 0

\* The trials whose score is exactly 5.
FullyPassed == {i \in DOMAIN trial : trial[i].score = 5}

\* C14: for num_runs >= 1 the report is computed, counts as fully passed the
\* trials of score exactly 5, gives the pass rate as that count over
\* num_runs, and says the target is met iff 10% <= pass rate <= 40%, ends
\* included (10 * num_runs <= 100 * count <= 40 * num_runs).
C14_ReportCountsAndBand ==
    /\ num_runs >= 1 => mpc # "crashed"
    /\ mpc = "reported"
         => /\ num_runs >= 1
            /\ report.passed_runs = Cardinality(FullyPassed)
            /\ report.num_runs = Len(trial)
            /\ report.target_met
                  <=> /\ report.num_runs <= 10 * report.passed_runs
                      /\ 10 * report.passed_runs <= 4 * report.num_runs

\* The report of one fully passed trial out of ten: the lower end, 10%.
C14_Witness ==
    /\ mpc = "reported"
    /\ report.num_runs = 10
    /\ report.passed_runs = 1
    /\ report.target_met

(***************************************************************************)
(* Properties of grade_response (GradeSpec)                                *)
(***************************************************************************)
AllKeys == {FunctionKeys[i] : i \in 1..5}

\* Whenever grade_response returns, the score is the number of results
\* marked passed.
ScoreIsPassedCount ==
    gpc = "returned"
        => /\ DOMAIN grading.results = AllKeys
           /\ grading.score = PassedCount(grading.results)
           /\ grading.score \in 0..5

\* C7: for every submitted text grade_response returns, and the score it
\* returns is the number of the five results marked passed (0..5).
C7_ReturnsScoreOfPassed ==
    /\ gpc # "raised"
    /\ ScoreIsPassedCount

C9_FaultFailsOnlyItsVector ==
    (graded.fn # 0 /\ graded.present)
        => /\ graded.invoked = NumTests(variant, graded.fn)
           /\ graded.passed = Passed(variant, graded.fn, graded.sat,
                                     NumTests(variant, graded.fn))

\* C10: a graded function is marked passed iff every one of its vectors is
\* satisfied.
C10_PassedIffAllVectors ==
    (graded.fn # 0 /\ graded.present)
        => (graded.passed <=> graded.sat = NumTests(variant, graded.fn))

\* C11: a submission whose five functions satisfy every test vector is
\* graded score 5 (so every such trial is fully passed).
C11_PerfectSubmissionScoresFive ==
    (gpc = "returned" /\ perfect) => grading.score = 5

\* The result of grading a text that loads and defines none of the functions.
NothingFound ==
    [results |-> [k \in AllKeys |->
                     [passed |-> FALSE, reason |-> "Function not found"]],
     score |-> 0,
     error |-> None]

\* C12: a trial whose session returned None is graded as the empty text, and
\* grading the empty text always returns, with score 0 and every function
\* failed for the same reason, whichever way the call runs.
C12_NoSubmissionGradedAsEmpty ==
    /\ code = None => response_code = ""
    /\ response_code = "" => gpc # "raised"
    /\ (response_code = "" /\ gpc = "returned") => grading = NothingFound

C12_Witness == code = None /\ gpc = "returned" /\ grading.score = 0

\* The action vectors invoked so far.
ActionInvoked ==
    IF fn = 5 /\ gpc = "vectors" THEN SubSeq(ActionCases(variant), 1, vi)
    ELSE <<>>

\* The sides the vectors cs give a severity that lies on a threshold: the
\* band below it or the band above it.
Sides(cs) ==
    {"lower" : k \in {k \in 1..3 : \E j \in 1..Len(cs) :
                         /\ cs[j].severity = Thresholds[k]
                         /\ cs[j].expected = Actions[k]}}
    \cup {"upper" : k \in {k \in 1..3 : \E j \in 1..Len(cs) :
                         /\ cs[j].severity = Thresholds[k]
                         /\ cs[j].expected = Actions[k + 1]}}

\* The band of a severity that lies on no threshold.
Band(sev) == 1 + Cardinality({k \in 1..3 : Thresholds[k] < sev})

\* C16: the expected actions of the determine_response_action vectors put a
\* severity that lies on a threshold on the same side at every threshold,
\* and depend on the severity only, not on the drift_type.
C16_OneInclusivityConvention ==
    LET cs == ActionInvoked IN
    /\ Cardinality(Sides(cs)) <= 1
    /\ \A j \in 1..Len(cs) :
         /\ cs[j].severity \in {Thresholds[k] : k \in 1..3}
              => \E k \in 1..3 : /\ cs[j].severity = Thresholds[k]
                                  /\ cs[j].expected \in {Actions[k], Actions[k + 1]}
         /\ cs[j].severity \notin {Thresholds[k] : k \in 1..3}
              => cs[j].expected = Actions[Band(cs[j].severity)]
    /\ \A j, k \in 1..Len(cs) :
         cs[j].severity = cs[k].severity => cs[j].expected = cs[k].expected

\* C19: the pass decision of a graded function is a bound on its failed
\* vectors: for one allowed-failure count f it is passed iff at most f of
\* its vectors are not satisfied, so that more satisfied vectors never turn
\* a pass into a fail.
C19_AllowedFailureBound ==
    (graded.fn # 0 /\ graded.present /\ graded.invoked = NumTests(variant, graded.fn))
        => LET n == NumTests(variant, graded.fn) IN
           /\ graded.passed = Passed(variant, graded.fn, graded.sat, n)
           /\ \E f \in 0..n : \A k \in 0..n :
                 Passed(variant, graded.fn, k, n) <=> (n - k <= f)

====
